---- MODULE Spec2Model ----
(***************************************************************************)
(* The lightbox viewer of the photo gallery: the SharedModal component     *)
(* (src/utils/types.ts), the Home page that mounts it and remembers the    *)
(* last viewed photo (src/pages/index.tsx), the admin page                 *)
(* (src/pages/admin.tsx) and the API handlers behind it.                   *)
(*                                                                         *)
(* SharedModal is a React function component: its handlers are closures    *)
(* over the props of the render that created them.  A handler reports a    *)
(* navigation to its parent through the changePhotoId prop; the viewer     *)
(* shows the new index only after the parent has re-rendered it.  The      *)
(* model keeps the two moments apart: the input actions run a handler of   *)
(* the last render, Render is the re-render with the parent's new state.   *)
(*                                                                         *)
(* The parts of the program are modelled each with its own variables       *)
(* and its own specification; a specification leaves the variables of the  *)
(* other parts alone:                                                      *)
(*   Spec        the viewer's navigation (SharedModal, Home)               *)
(*   SpecDup     the same, given collections that share a navigationId     *)
(*   SpecBuild   getStaticProps building the collection (shuffleArray)     *)
(*   SpecLayout  the viewer's layout effect (dimensions, resize listener)  *)
(*   SpecServed  the viewer on the collection getStaticProps has built     *)
(*   SpecAdmin   the admin page's upload queue (pages/admin.tsx)           *)
(*   SpecDelete  the admin page's delete button                            *)
(*   SpecApi     the upload and admin-auth API handlers                    *)
(*   SpecAuth    the admin page's login, logout and periodic auth check    *)
(***************************************************************************)
EXTENDS Integers, Sequences, FiniteSets

\* ---------------------------------------------------------------- bounds

\* Largest collection the viewer is given.
MaxN == 32

\* Most identifier-changed callbacks reported before the parent re-renders.
MaxCalls == 2

\* Most resources the search of getStaticProps returns.
MaxResults == 5

\* Most runs of the viewer's layout effect that are followed.
MaxRegistrations == 3

\* Files the admin drops on the upload queue.
MaxFiles == 3

\* Requests the API handlers are sent.
MaxRequests == 3

\* The clock of the admin page runs up to this many minutes.
MaxMinutes == 35

\* Login requests in flight at a time.
MaxLogins == 2

\* ------------------------------------------------------ program constants

\* range(index - 15, index + 15): the radius of the filmstrip window.
Radius == 15

\* Math.min(1280, window.innerWidth - 100)
MaxDisplayWidth == 1280

\* window.innerWidth - 100, window.innerHeight - 100
Margin == 100

\* useState({ width: 1280, height: 853 })
DefaultWidth == 1280
DefaultHeight == 853

\* const thirtyMinutes = 30 * 60 * 1000
thirtyMinutes == 30 * 60 * 1000

\* const MAX_FILE_SIZE = 10 * 1024 * 1024
MAX_FILE_SIZE == 10 * 1024 * 1024

\* ----------------------------------------------------------- collections

Sizes == {0, 1, 2, 5, MaxN}

Orders == {"asc", "rev", "rot"}

\* A permutation of 0..n-1, by name.
Perm(k, n, i) ==
  CASE k = "asc" -> i
    [] k = "rev" -> n - 1 - i
    [] k = "rot" -> (i + 1) % n

\* ImageProps[]: the record at array position p has id Perm(ord, n, p-1), and
\* navigationId Perm(nav, n, id).  Ids are dense, navigationIds a permutation
\* of them; the array order, the ids and the navigationIds are independent.
MakeImages(n, ord, nav) ==
  [p \in 1..n |->
     [id |-> Perm(ord, n, p - 1),
      navigationId |-> Perm(nav, n, Perm(ord, n, p - 1))]]

Collections == {MakeImages(n, ord, nav) : n \in Sizes, ord \in Orders, nav \in Orders}

\* ------------------------------------------------------------------ state

VARIABLES
  images,          \* the images prop (read only when navigation is TRUE)
  navigation,      \* the navigation prop; FALSE: images is undefined and
                   \* currentPhoto is given instead
  status,          \* "closed", "open", or "error" (render threw)
  index,           \* the index prop of the last render
  photoId,         \* Home: router.query.photoId of the last render
  currentIndex,    \* the parent's current index (what it renders next)
  calls,           \* changePhotoId calls since the last render
  loaded,          \* SharedModal: useState(false)
  ownLoad,         \* the displayed <Image> has fired its own onLoad
  lastEvent,       \* the last input handled
  lastViewedPhoto  \* Home: useLastViewedPhoto

viewerVars == <<images, navigation, status, index, photoId, currentIndex, calls,
                loaded, ownLoad, lastEvent, lastViewedPhoto>>

\* getStaticProps
VARIABLES
  pc,                 \* where getStaticProps is: "idle", "map", "shuffle", "done"
  results,            \* results.resources.length
  reducedResults,     \* let reducedResults: ImageProps[]
  originalOrder,      \* const originalOrder
  newArray,           \* shuffleArray: const newArray = [...array]
  shuffleI,           \* shuffleArray: the loop variable i
  randomizedResults   \* the images prop the page is built with

buildVars == <<pc, results, reducedResults, originalOrder, newArray, shuffleI,
               randomizedResults>>

\* SharedModal: dimensions and the resize listener
VARIABLES
  viewport,        \* window.innerWidth, window.innerHeight
  shown,           \* the currentImage of the last render (a position of
                   \* Photos), 0 when the viewer is not mounted
  dimensions,      \* useState({ width: 1280, height: 853 })
  effectDeps,      \* the currentImage the effect last ran for, 0: not yet
  listeners,       \* the calculateDimensions closures registered for
                   \* 'resize', each named by the currentImage it closes over
  registrations    \* addEventListener calls so far

layoutVars == <<viewport, shown, dimensions, effectDeps, listeners, registrations>>

\* AdminPage
VARIABLES
  uploadingFiles,     \* useState<UploadingFile[]>([])
  isProcessing,       \* useState(false)
  adminImages,        \* useState<CloudinaryImage[]>(initialImages): public ids
  isDeleting,         \* useState<string | null>(null)
  clearQueueTimeout,  \* the 20 s timeout of clearQueueTimeoutRef is pending
  runFiles,           \* the uploadingFiles the running handleUpload closes over
  runI,               \* its loop variable i, counted from 1
  runPc,              \* where it waits: "idle", "compress", "fetch"
  runLog,             \* what the run has done so far, file by file
  imagesAtStart,      \* adminImages when the run started
  page,               \* "ok", or "error" once a render has thrown
  deleteRequests,     \* public ids of the DELETE requests in flight
  lastDelete,         \* the last DELETE request that settled
  lastAdminEvent      \* the last thing that happened on the page

adminVars == <<uploadingFiles, isProcessing, adminImages, isDeleting,
               clearQueueTimeout, runFiles, runI, runPc, runLog, imagesAtStart,
               page, deleteRequests, lastDelete, lastAdminEvent>>

\* pages/api/upload, pages/api/admin-auth
VARIABLES
  ADMIN_PASSWORD,  \* process.env.ADMIN_PASSWORD
  handlerName,     \* the handler of the request being handled
  req,             \* the request: method, whether it carries a file, password
  apiPc,           \* "idle", "parse", "upload", "done"
  resStatus,       \* res.status(...), 0 before the handler has answered
  setCookie,       \* the response carries the Set-Cookie header
  tempFiles,       \* requests whose temporary file is on disk
  hostUploads,     \* requests for which uploader.upload was called
  requestNo        \* requests received so far

apiVars == <<ADMIN_PASSWORD, handlerName, req, apiPc, resStatus, setCookie,
             tempFiles, hostUploads, requestNo>>

\* AdminPage: authentication
VARIABLES
  now,              \* Date.now(), in minutes
  authData,         \* localStorage 'adminAuth'
  isAuthenticated,  \* useState(false)
  mounted,          \* the admin page is mounted
  loginRequests,    \* POST /api/admin-auth requests in flight
  lastCheck,        \* what the last checkAuth found in localStorage, and when
  loggedOut,        \* handleLogout ran and no login has returned ok since
  lastAuthEvent

authVars == <<now, authData, isAuthenticated, mounted, loginRequests, lastCheck,
              loggedOut, lastAuthEvent>>

vars == <<viewerVars, buildVars, layoutVars, adminVars, apiVars, authVars>>

None == -1

Ids(imgs) == {imgs[p].id : p \in DOMAIN imgs}

Min(S) == CHOOSE x \in S : \A y \in S : x <= y

\* The record at array position x, taken for the record with id x.
FindByPosition(imgs, x) ==
  IF x + 1 \in DOMAIN imgs THEN x + 1 ELSE 0

\* Array.prototype.find: the position of the first match, 0 when there is none.
FindById(imgs, x) ==
  LET S == {p \in DOMAIN imgs : imgs[p].id = x}
  IN IF S = {} THEN 0 ELSE Min(S)

FindByNavigationId(imgs, x) ==
  LET S == {p \in DOMAIN imgs : imgs[p].navigationId = x}
  IN IF S = {} THEN 0 ELSE Min(S)

\* images ? images.find(img => img.id === index) : currentPhoto
\* TRUE when the render has a currentImage to dereference.
HasCurrentImage(imgs, nav, idx) ==
  IF nav THEN FindById(imgs, idx) # 0 ELSE TRUE

\* getStaticProps has not run.
BuildIdle ==
  /\ pc = "idle"
  /\ results = 0
  /\ reducedResults = <<>>
  /\ originalOrder = <<>>
  /\ newArray = <<>>
  /\ shuffleI = 0
  /\ randomizedResults = <<>>

\* initialImages: the public ids getServerSideProps found.
initialImages == <<10, 11, 12>>

\* The admin page as it is first rendered.
AdminIdle ==
  /\ uploadingFiles = <<>>
  /\ isProcessing = FALSE
  /\ adminImages = initialImages
  /\ isDeleting = None
  /\ clearQueueTimeout = FALSE
  /\ runFiles = <<>>
  /\ runI = 0
  /\ runPc = "idle"
  /\ runLog = <<>>
  /\ imagesAtStart = <<>>
  /\ page = "ok"
  /\ deleteRequests = {}
  /\ lastDelete = <<>>
  /\ lastAdminEvent = "none"

\* A password that is not there: req.body.password or the variable undefined.
NoPassword == "undefined"

NoRequest == [method |-> "none", file |-> FALSE, password |-> NoPassword]

\* No request has been received.
ApiIdle ==
  /\ ADMIN_PASSWORD = "secret"
  /\ handlerName = "none"
  /\ req = NoRequest
  /\ apiPc = "idle"
  /\ resStatus = 0
  /\ setCookie = FALSE
  /\ tempFiles = {}
  /\ hostUploads = {}
  /\ requestNo = 0

\* localStorage.getItem('adminAuth') === null
Absent == [kind |-> "absent", timestamp |-> 0]

\* The admin page is not mounted and nothing is stored.
AuthIdle ==
  /\ now = 0
  /\ authData = Absent
  /\ isAuthenticated = FALSE
  /\ mounted = FALSE
  /\ loginRequests = 0
  /\ lastCheck = <<>>
  /\ loggedOut = FALSE
  /\ lastAuthEvent = "none"

\* Window sizes.
Viewports ==
  {[w |-> 1400, h |-> 900], [w |-> 320, h |-> 480], [w |-> 1400, h |-> 500],
   [w |-> 900, h |-> 1400]}

\* The viewer is not mounted; no listener is registered.
LayoutIdle ==
  /\ viewport = [w |-> 1400, h |-> 900]
  /\ shown = 0
  /\ dimensions = [width |-> DefaultWidth, height |-> DefaultHeight]
  /\ effectDeps = 0
  /\ listeners = <<>>
  /\ registrations = 0

\* The viewer is not mounted.
ViewerIdle ==
  /\ images = <<>>
  /\ navigation = FALSE
  /\ status = "closed"
  /\ index = None
  /\ photoId = None
  /\ currentIndex = None
  /\ calls = <<>>
  /\ loaded = FALSE
  /\ ownLoad = FALSE
  /\ lastEvent = "none"
  /\ lastViewedPhoto = None

Init ==
  /\ BuildIdle
  /\ LayoutIdle
  /\ AdminIdle /\ ApiIdle /\ AuthIdle
  /\ \/ navigation = TRUE /\ images \in Collections
     \/ navigation = FALSE /\ images = <<>>
  /\ status = "closed"
  /\ index = None
  /\ photoId = None
  /\ currentIndex = None
  /\ calls = <<>>
  /\ loaded = FALSE
  /\ ownLoad = FALSE
  /\ lastEvent = "none"
  /\ lastViewedPhoto = None

\* ------------------------------------------------------- what is rendered

\* range(start, end) of utils/range.
range(start, end) == start..end

\* filteredImages with the window's last id left out.
filteredImagesShort(imgs, idx) ==
  SelectSeq(imgs, LAMBDA img : img.id \in range(idx - Radius, idx + Radius - 1))

\* filteredImages with the window taken over navigationId.
filteredImagesByNavigationId(imgs, idx) ==
  SelectSeq(imgs,
    LAMBDA img : img.navigationId \in range(idx - Radius, idx + Radius))

\* images?.filter(img => range(index - 15, index + 15).includes(img.id))
filteredImages(imgs, idx) ==
  SelectSeq(imgs, LAMBDA img : img.id \in range(idx - Radius, idx + Radius))

\* PrevButtonShown with index >= 0 for index > 0.
PrevButtonShownAtZero ==
  status = "open" /\ loaded /\ navigation /\ index >= 0

\* {loaded && ( ... {navigation && ( {index > 0 && <button .../>} ...
PrevButtonShown ==
  status = "open" /\ loaded /\ navigation /\ index > 0

\* NextButtonShown with index + 1 <= images.length.
NextButtonShownPastEnd ==
  status = "open" /\ loaded /\ navigation /\ index + 1 <= Len(images)

\* {index + 1 < images.length && <button .../>}
NextButtonShown ==
  status = "open" /\ loaded /\ navigation /\ index + 1 < Len(images)

\* {navigation ? <a href=... title="Open fullsize version"/> : null}
OpenOriginalShown ==
  status = "open" /\ loaded /\ navigation

\* CloseButtonShown outside the {loaded && ...} block.
CloseButtonShownUnloaded ==
  status = "open"

\* <button onClick={() => closeModal()}>
CloseButtonShown ==
  status = "open" /\ loaded

\* {navigation && ( <div className="fixed inset-x-0 bottom-0 ..."> ...
FilmstripShown ==
  status = "open" /\ navigation

\* ---------------------------------------------------------------- targets

\* onSwipedLeft choosing the next record by id instead of navigationId.
onSwipedLeftById(imgs, nav, idx) ==
  LET currentImage == IF nav THEN FindById(imgs, idx) ELSE 0
  IN IF currentImage # 0
     THEN LET nextImage == FindById(imgs, imgs[currentImage].id + 1)
          IN IF nextImage # 0 THEN imgs[nextImage].id ELSE None
     ELSE None

\* onSwipedLeft: the id it passes to changePhotoId, None when it calls nothing.
onSwipedLeft(imgs, nav, idx) ==
  LET currentImage == IF nav THEN FindById(imgs, idx) ELSE 0
  IN IF currentImage # 0
     THEN LET nextImage ==
                FindByNavigationId(imgs, imgs[currentImage].navigationId + 1)
          IN IF nextImage # 0 THEN imgs[nextImage].id ELSE None
     ELSE None

\* onSwipedRight wrapping around to the largest navigationId.
onSwipedRightWrap(imgs, nav, idx) ==
  LET currentImage == IF nav THEN FindById(imgs, idx) ELSE 0
  IN IF currentImage # 0
     THEN LET prevImage ==
                FindByNavigationId(imgs,
                  (imgs[currentImage].navigationId - 1) % Len(imgs))
          IN IF prevImage # 0 THEN imgs[prevImage].id ELSE None
     ELSE None

\* onSwipedRight choosing the previous record by id instead of navigationId.
onSwipedRightById(imgs, nav, idx) ==
  LET currentImage == IF nav THEN FindById(imgs, idx) ELSE 0
  IN IF currentImage # 0
     THEN LET prevImage == FindById(imgs, imgs[currentImage].id - 1)
          IN IF prevImage # 0 THEN imgs[prevImage].id ELSE None
     ELSE None

\* onSwipedRight: the id it passes to changePhotoId, None when it calls nothing.
onSwipedRight(imgs, nav, idx) ==
  LET currentImage == IF nav THEN FindById(imgs, idx) ELSE 0
  IN IF currentImage # 0
     THEN LET prevImage ==
                FindByNavigationId(imgs, imgs[currentImage].navigationId - 1)
          IN IF prevImage # 0 THEN imgs[prevImage].id ELSE None
     ELSE None

\* onClick={() => changePhotoId(index - 1)}
prevButtonOnClick(idx) == idx - 1

\* onClick={() => changePhotoId(index + 1)}
nextButtonOnClick(idx) == idx + 1

\* The parent's onNavigate: its current index after changePhotoId(newVal).
onNavigate(newVal) == newVal

\* changePhotoId called with the direction of the input as a second argument.
ChangePhotoIdWithDirection(newVal, src) ==
  /\ calls' = Append(calls,
       [id |-> newVal, src |-> src,
        args |-> <<newVal, IF src \in {"left", "next"} THEN 1 ELSE -1>>])
  /\ currentIndex' = onNavigate(newVal)
  /\ lastEvent' = src
  /\ UNCHANGED <<images, navigation, status, index, photoId, loaded, ownLoad,
                 lastViewedPhoto>>

\* changePhotoId(newVal), called by the handler of input `src`; args are the
\* arguments of the call.
ChangePhotoId(newVal, src) ==
  /\ calls' = Append(calls, [id |-> newVal, src |-> src, args |-> <<newVal>>])
  /\ currentIndex' = onNavigate(newVal)
  /\ lastEvent' = src
  /\ UNCHANGED <<images, navigation, status, index, photoId, loaded, ownLoad,
                 lastViewedPhoto>>

\* A handler ran and called nothing.
NoCall(src) ==
  /\ lastEvent' = src
  /\ UNCHANGED <<images, navigation, status, index, photoId, currentIndex,
                 calls, loaded, ownLoad, lastViewedPhoto>>

\* ---------------------------------------------------------------- actions

\* The viewer is mounted for index p: the first render of SharedModal.  Home's
\* effect has run by then: React flushes it before it handles the next click.
Open(p) ==
  /\ status = "closed"
  /\ lastViewedPhoto = None
  /\ status' = IF HasCurrentImage(images, navigation, p) THEN "open" ELSE "error"
  /\ index' = p
  /\ photoId' = p
  /\ currentIndex' = p
  /\ calls' = <<>>
  /\ loaded' = FALSE
  /\ ownLoad' = FALSE
  /\ lastEvent' = "open"
  /\ UNCHANGED <<images, navigation, lastViewedPhoto>>

\* onLoad={() => setLoaded(true)} of the displayed <Image>.
ImageOnLoad ==
  /\ status = "open"
  /\ ~ownLoad
  /\ loaded' = TRUE
  /\ ownLoad' = TRUE
  /\ lastEvent' = "load"
  /\ UNCHANGED <<images, navigation, status, index, photoId, currentIndex,
                 calls, lastViewedPhoto>>

SwipedLeft ==
  /\ status = "open"
  /\ Len(calls) < MaxCalls
  /\ LET t == onSwipedLeft(images, navigation, index)
     IN IF t # None THEN ChangePhotoId(t, "left") ELSE NoCall("left")

SwipedRight ==
  /\ status = "open"
  /\ Len(calls) < MaxCalls
  /\ LET t == onSwipedRight(images, navigation, index)
     IN IF t # None THEN ChangePhotoId(t, "right") ELSE NoCall("right")

ClickPrev ==
  /\ PrevButtonShown
  /\ Len(calls) < MaxCalls
  /\ ChangePhotoId(prevButtonOnClick(index), "prev")

ClickNext ==
  /\ NextButtonShown
  /\ Len(calls) < MaxCalls
  /\ ChangePhotoId(nextButtonOnClick(index), "next")

\* The thumbnails the model clicks: the first, the middle and the last of a
\* filmstrip of n.
ThumbPicks(n) == {1, (n + 1) \div 2, n} \cap (1..n)

\* onClick={() => changePhotoId(id)} of the thumbnail at position k.
ClickThumb(k) ==
  /\ FilmstripShown
  /\ Len(calls) < MaxCalls
  /\ k \in ThumbPicks(Len(filteredImages(images, index)))
  /\ ChangePhotoId(filteredImages(images, index)[k].id, "thumb")

\* The parent re-renders the viewer with its current index.  The main
\* <Image> sits under <motion.div key={index}>: a new index mounts a new one.
Render ==
  /\ status = "open"
  /\ calls # <<>>
  /\ status' = IF HasCurrentImage(images, navigation, currentIndex)
               THEN "open" ELSE "error"
  /\ index' = currentIndex
  /\ photoId' = currentIndex
  /\ calls' = <<>>
  /\ ownLoad' = IF currentIndex = index THEN ownLoad ELSE FALSE
  /\ lastEvent' = "render"
  /\ UNCHANGED <<images, navigation, currentIndex, loaded, lastViewedPhoto>>

\* Home: onClose={() => { setLastViewedPhoto(photoId); }}
onClose == photoId

\* The close button: closeModal().  The viewer unmounts and its state is
\* discarded; currentIndex keeps the parent's value at close time and is read
\* by nothing until the next Open.
Close ==
  /\ CloseButtonShown
  /\ status' = "closed"
  /\ lastViewedPhoto' = IF navigation THEN onClose ELSE lastViewedPhoto
  /\ photoId' = None
  /\ index' = None
  /\ calls' = <<>>
  /\ loaded' = FALSE
  /\ ownLoad' = FALSE
  /\ lastEvent' = "close"
  /\ UNCHANGED <<images, navigation, currentIndex>>

\* Home: if (lastViewedPhoto && !photoId) { ...; setLastViewedPhoto(null); }
HomeEffect ==
  /\ status = "closed"
  /\ lastViewedPhoto # None
  /\ photoId = None
  /\ lastViewedPhoto' = None
  /\ lastEvent' = "effect"
  /\ UNCHANGED <<images, navigation, status, index, photoId, currentIndex,
                 calls, loaded, ownLoad>>

Next ==
  \/ (\E p \in 0..Len(images) : Open(p)) /\ UNCHANGED <<buildVars, layoutVars, adminVars, apiVars, authVars>>
  \/ ImageOnLoad /\ UNCHANGED <<buildVars, layoutVars, adminVars, apiVars, authVars>>
  \/ SwipedLeft /\ UNCHANGED <<buildVars, layoutVars, adminVars, apiVars, authVars>>
  \/ SwipedRight /\ UNCHANGED <<buildVars, layoutVars, adminVars, apiVars, authVars>>
  \/ ClickPrev /\ UNCHANGED <<buildVars, layoutVars, adminVars, apiVars, authVars>>
  \/ ClickNext /\ UNCHANGED <<buildVars, layoutVars, adminVars, apiVars, authVars>>
  \/ (\E k \in 1..(2 * Radius + 1) : ClickThumb(k)) /\ UNCHANGED <<buildVars, layoutVars, adminVars, apiVars, authVars>>
  \/ Render /\ UNCHANGED <<buildVars, layoutVars, adminVars, apiVars, authVars>>
  \/ Close /\ UNCHANGED <<buildVars, layoutVars, adminVars, apiVars, authVars>>
  \/ HomeEffect /\ UNCHANGED <<buildVars, layoutVars, adminVars, apiVars, authVars>>

Spec == Init /\ [][Next]_vars

\* ------------------------------------- collections sharing a navigationId

\* ImageProps[] with dense ids in which the records with ids 2k and 2k+1 have
\* the same navigationId k.
MakeDupImages(n, ord) ==
  [p \in 1..n |->
     [id |-> Perm(ord, n, p - 1),
      navigationId |-> Perm(ord, n, p - 1) \div 2]]

DupCollections == {MakeDupImages(n, ord) : n \in {3, 5}, ord \in Orders}

InitDup ==
  /\ BuildIdle
  /\ LayoutIdle
  /\ AdminIdle /\ ApiIdle /\ AuthIdle
  /\ navigation = TRUE
  /\ images \in DupCollections
  /\ status = "closed"
  /\ index = None
  /\ photoId = None
  /\ currentIndex = None
  /\ calls = <<>>
  /\ loaded = FALSE
  /\ ownLoad = FALSE
  /\ lastEvent = "none"
  /\ lastViewedPhoto = None

SpecDup == InitDup /\ [][Next]_vars

\* --------------------------------------------------------- getStaticProps

\* mapResources numbering the records from one.
mapResourcesFromOne(n) == [k \in 1..n |-> [id |-> k, navigationId |-> k]]

\* results.resources.map((result, i) => ({ id: i, ..., navigationId: i }))
mapResources(n) == [k \in 1..n |-> [id |-> k - 1, navigationId |-> k - 1]]

\* reducedResults.map((_, i) => i)
mapOriginalOrder(reduced) == [k \in 1..Len(reduced) |-> k - 1]

\* The swap with newArray[i] overwritten and newArray[j] left as it was.
swapLost(arr, i, j) == [arr EXCEPT ![i + 1] = arr[j + 1]]

\* [newArray[i], newArray[j]] = [newArray[j], newArray[i]]
swap(arr, i, j) == [arr EXCEPT ![i + 1] = arr[j + 1], ![j + 1] = arr[i + 1]]

\* The randomized array with id set to the new array position.
mapShuffledOrderByPosition(reduced, shuffledOrder) ==
  [k \in 1..Len(shuffledOrder) |->
     [id |-> k - 1, navigationId |-> shuffledOrder[k]]]

\* shuffledOrder.map(newIndex => ({ ...reducedResults[newIndex],
\*   id: reducedResults[newIndex].id, navigationId: newIndex }))
mapShuffledOrder(reduced, shuffledOrder) ==
  [k \in 1..Len(shuffledOrder) |->
     [id |-> reduced[shuffledOrder[k] + 1].id,
      navigationId |-> shuffledOrder[k]]]

\* The search returned n resources; reducedResults and originalOrder are built.
Search(n) ==
  /\ pc = "idle"
  /\ results' = n
  /\ pc' = "map"
  /\ UNCHANGED <<reducedResults, originalOrder, newArray, shuffleI,
                 randomizedResults>>

\* The search threw: catch (error) { return { props: { images: [] } } }
SearchFails ==
  /\ pc = "idle"
  /\ pc' = "done"
  /\ randomizedResults' = <<>>
  /\ UNCHANGED <<results, reducedResults, originalOrder, newArray, shuffleI>>

\* reducedResults, originalOrder, and the entry of shuffleArray(originalOrder).
MapResults ==
  /\ pc = "map"
  /\ reducedResults' = mapResources(results)
  /\ originalOrder' = mapOriginalOrder(mapResources(results))
  /\ newArray' = mapOriginalOrder(mapResources(results))
  /\ shuffleI' = results - 1
  /\ pc' = "shuffle"
  /\ UNCHANGED <<results, randomizedResults>>

\* One turn of for (let i = newArray.length - 1; i > 0; i--), with
\* j = Math.floor(Math.random() * (i + 1)).
ShuffleStep(j) ==
  /\ pc = "shuffle"
  /\ shuffleI > 0
  /\ j \in 0..shuffleI
  /\ newArray' = swap(newArray, shuffleI, j)
  /\ shuffleI' = shuffleI - 1
  /\ UNCHANGED <<pc, results, reducedResults, originalOrder, randomizedResults>>

\* return newArray; randomizedResults; return { props: { images } }
Randomize ==
  /\ pc = "shuffle"
  /\ ~(shuffleI > 0)
  /\ randomizedResults' = mapShuffledOrder(reducedResults, newArray)
  /\ pc' = "done"
  /\ UNCHANGED <<results, reducedResults, originalOrder, newArray, shuffleI>>

InitBuild == BuildIdle /\ ViewerIdle /\ LayoutIdle /\ AdminIdle /\ ApiIdle /\ AuthIdle

NextBuild ==
  \/ (\E n \in 0..MaxResults : Search(n)) /\ UNCHANGED <<viewerVars, layoutVars, adminVars, apiVars, authVars>>
  \/ SearchFails /\ UNCHANGED <<viewerVars, layoutVars, adminVars, apiVars, authVars>>
  \/ MapResults /\ UNCHANGED <<viewerVars, layoutVars, adminVars, apiVars, authVars>>
  \/ (\E j \in 0..MaxResults : ShuffleStep(j)) /\ UNCHANGED <<viewerVars, layoutVars, adminVars, apiVars, authVars>>
  \/ Randomize /\ UNCHANGED <<viewerVars, layoutVars, adminVars, apiVars, authVars>>

SpecBuild == InitBuild /\ [][NextBuild]_vars

\* ------------------------------------------- the viewer on a built collection

\* Home is rendered with the props getStaticProps returned and hands
\* images to the viewer.
Serve ==
  /\ pc = "done"
  /\ pc' = "served"
  /\ images' = randomizedResults
  /\ navigation' = TRUE
  /\ UNCHANGED <<status, index, photoId, currentIndex, calls, loaded, ownLoad,
                 lastEvent, lastViewedPhoto>>
  /\ UNCHANGED <<results, reducedResults, originalOrder, newArray, shuffleI,
                 randomizedResults>>

Served == pc = "served"

InitServed == BuildIdle /\ ViewerIdle /\ LayoutIdle /\ AdminIdle /\ ApiIdle /\ AuthIdle

NextServed ==
  \/ (\E n \in 0..MaxResults : Search(n)) /\ UNCHANGED <<viewerVars, layoutVars, adminVars, apiVars, authVars>>
  \/ SearchFails /\ UNCHANGED <<viewerVars, layoutVars, adminVars, apiVars, authVars>>
  \/ MapResults /\ UNCHANGED <<viewerVars, layoutVars, adminVars, apiVars, authVars>>
  \/ (\E j \in 0..MaxResults : ShuffleStep(j)) /\ UNCHANGED <<viewerVars, layoutVars, adminVars, apiVars, authVars>>
  \/ Randomize /\ UNCHANGED <<viewerVars, layoutVars, adminVars, apiVars, authVars>>
  \/ Serve /\ UNCHANGED <<layoutVars, adminVars, apiVars, authVars>>
  \/ (Served /\ \E p \in 0..Len(images) : Open(p)) /\ UNCHANGED <<buildVars, layoutVars, adminVars, apiVars, authVars>>
  \/ (Served /\ ImageOnLoad) /\ UNCHANGED <<buildVars, layoutVars, adminVars, apiVars, authVars>>
  \/ (Served /\ SwipedLeft) /\ UNCHANGED <<buildVars, layoutVars, adminVars, apiVars, authVars>>
  \/ (Served /\ SwipedRight) /\ UNCHANGED <<buildVars, layoutVars, adminVars, apiVars, authVars>>
  \/ (Served /\ ClickPrev) /\ UNCHANGED <<buildVars, layoutVars, adminVars, apiVars, authVars>>
  \/ (Served /\ ClickNext) /\ UNCHANGED <<buildVars, layoutVars, adminVars, apiVars, authVars>>
  \/ (Served /\ Render) /\ UNCHANGED <<buildVars, layoutVars, adminVars, apiVars, authVars>>

SpecServed == InitServed /\ [][NextServed]_vars

\* ----------------------------------------------------------------- layout

\* The width and height fields of ImageProps: decimal strings, as digits.
Photos ==
  << [width |-> <<2, 0, 0, 0>>, height |-> <<1, 0, 0, 0>>],
     [width |-> <<8, 0, 0>>,    height |-> <<1, 6, 0, 0>>],
     [width |-> <<5, 0, 0>>,    height |-> <<5, 0, 0>>],
     [width |-> <<3, 0, 0>>,    height |-> <<2, 0, 0>>],
     [width |-> <<2, 0, 0, 0>>, height |-> <<1, 9, 0, 0>>] >>

\* Number(s) of a string of decimal digits.
RECURSIVE Number(_)
Number(ds) ==
  IF ds = <<>> THEN 0
  ELSE 10 * Number(SubSeq(ds, 1, Len(ds) - 1)) + ds[Len(ds)]

\* Math.min
MathMin(a, b) == IF a < b THEN a ELSE b

\* Math.round(a / b) for a >= 0, b > 0: halves go up.
MathRoundDiv(a, b) == (2 * a + b) \div (2 * b)

\* calculateDimensions taking a square image for a landscape one.
calculateDimensionsSquareAsLandscape(currentImage, vp) ==
  LET maxWidth == MathMin(MaxDisplayWidth, vp.w - Margin)
      maxHeight == vp.h - Margin
      imageWidth == Number(currentImage.width)
      imageHeight == Number(currentImage.height)
  IN IF imageWidth >= imageHeight
     THEN LET width == MathMin(maxWidth, imageWidth)
          IN [width |-> width,
              height |-> MathRoundDiv(width * imageHeight, imageWidth)]
     ELSE LET height == MathMin(maxHeight, imageHeight)
          IN [width |-> MathRoundDiv(height * imageWidth, imageHeight),
              height |-> height]

\* calculateDimensions: the value it passes to setDimensions.  ratio > 1 is
\* imageWidth > imageHeight; width / ratio is width * imageHeight / imageWidth
\* and height * ratio is height * imageWidth / imageHeight.
calculateDimensions(currentImage, vp) ==
  LET maxWidth == MathMin(MaxDisplayWidth, vp.w - Margin)
      maxHeight == vp.h - Margin
      imageWidth == Number(currentImage.width)
      imageHeight == Number(currentImage.height)
  IN IF imageWidth > imageHeight
     THEN LET width == MathMin(maxWidth, imageWidth)
          IN [width |-> width,
              height |-> MathRoundDiv(width * imageHeight, imageWidth)]
     ELSE LET height == MathMin(maxHeight, imageHeight)
          IN [width |-> MathRoundDiv(height * imageWidth, imageHeight),
              height |-> height]

\* The 'resize' event: every registered calculateDimensions runs, in the order
\* of registration, and calls setDimensions; the last call is what is rendered.
onResize(ls, vp, dims) ==
  IF ls = <<>> THEN dims
  ELSE calculateDimensions(Photos[ls[Len(ls)]], vp)

\* The effect's cleanup left out.
removeEventListenerNever(ls, f) == ls

\* return () => window.removeEventListener('resize', calculateDimensions)
removeEventListener(ls, f) ==
  LET S == {k \in DOMAIN ls : ls[k] = f}
  IN IF S = {} THEN ls
     ELSE [k \in 1..(Len(ls) - 1) |-> IF k < Min(S) THEN ls[k] ELSE ls[k + 1]]

\* window.addEventListener('resize', calculateDimensions)
addEventListener(ls, f) == Append(ls, f)

\* SharedModal is mounted and renders currentImage p for the first time.
Mount(p) ==
  /\ shown = 0
  /\ shown' = p
  /\ dimensions' = [width |-> DefaultWidth, height |-> DefaultHeight]
  /\ effectDeps' = 0
  /\ UNCHANGED <<viewport, listeners, registrations>>

\* useEffect(() => { ... }, [currentImage]): after a render with another
\* currentImage the previous cleanup runs, then the effect.
RunEffect ==
  /\ shown # 0
  /\ effectDeps # shown
  /\ registrations < MaxRegistrations
  /\ dimensions' = calculateDimensions(Photos[shown], viewport)
  /\ listeners' = addEventListener(removeEventListener(listeners, effectDeps), shown)
  /\ effectDeps' = shown
  /\ registrations' = registrations + 1
  /\ UNCHANGED <<viewport, shown>>

\* The parent re-renders the viewer with another currentImage.  React runs
\* the pending effect of the previous render before it renders again.
NavigateTo(q) ==
  /\ shown # 0
  /\ effectDeps = shown
  /\ q # shown
  /\ shown' = q
  /\ UNCHANGED <<viewport, dimensions, effectDeps, listeners, registrations>>

\* The window is resized to v.
Resize(v) ==
  /\ v # viewport
  /\ viewport' = v
  /\ dimensions' = onResize(listeners, v, dimensions)
  /\ UNCHANGED <<shown, effectDeps, listeners, registrations>>

\* The viewer is unmounted: the cleanup of the last effect runs and the
\* component's state is discarded.
Unmount ==
  /\ shown # 0
  /\ shown' = 0
  /\ listeners' = removeEventListener(listeners, effectDeps)
  /\ effectDeps' = 0
  /\ dimensions' = [width |-> DefaultWidth, height |-> DefaultHeight]
  /\ UNCHANGED <<viewport, registrations>>

InitLayout == BuildIdle /\ ViewerIdle /\ LayoutIdle /\ AdminIdle /\ ApiIdle /\ AuthIdle

NextLayout ==
  \/ (\E p \in DOMAIN Photos : Mount(p)) /\ UNCHANGED <<viewerVars, buildVars, adminVars, apiVars, authVars>>
  \/ RunEffect /\ UNCHANGED <<viewerVars, buildVars, adminVars, apiVars, authVars>>
  \/ (\E q \in DOMAIN Photos : NavigateTo(q)) /\ UNCHANGED <<viewerVars, buildVars, adminVars, apiVars, authVars>>
  \/ (\E v \in Viewports : Resize(v)) /\ UNCHANGED <<viewerVars, buildVars, adminVars, apiVars, authVars>>
  \/ Unmount /\ UNCHANGED <<viewerVars, buildVars, adminVars, apiVars, authVars>>

SpecLayout == InitLayout /\ [][NextLayout]_vars

\* ------------------------------------------------------------- admin page

MB == 1024 * 1024

\* file.size of the files the admin drops: the second is above MAX_FILE_SIZE.
FileSize(f) == IF f = 2 THEN 12 * MB ELSE f * MB

\* The size of what compressImage returns (maxSizeMB: 9.5).
CompressedSize == 9 * MB

\* An array slot that was never assigned, and what [...prev] makes of it.
Hole == [file |-> 0, size |-> 0, status |-> "hole"]
Undefined == [file |-> 0, size |-> 0, status |-> "undefined"]

\* const newFiles = [...prev]
Spread(prev) ==
  [k \in DOMAIN prev |-> IF prev[k] = Hole THEN Undefined ELSE prev[k]]

\* { ...newFiles[i] }: the fields of slot i, none when the slot is not there.
Fields(newFiles, i) ==
  IF i <= Len(newFiles) /\ newFiles[i] # Undefined
  THEN newFiles[i]
  ELSE [file |-> 0, size |-> 0, status |-> "none"]

\* newFiles[i] = e: an assignment past the end leaves holes before slot i.
Assign(newFiles, i, e) ==
  IF i <= Len(newFiles)
  THEN [newFiles EXCEPT ![i] = e]
  ELSE [k \in 1..i |-> IF k <= Len(newFiles) THEN newFiles[k]
                        ELSE IF k < i THEN Hole ELSE e]

\* prev => { newFiles[i] = { ...newFiles[i], status: 'uploading', progress: 0 } }
markUploading(prev, i) ==
  LET newFiles == Spread(prev)
  IN Assign(newFiles, i, [Fields(newFiles, i) EXCEPT !.status = "uploading"])

\* prev => { newFiles[i] = { ...newFiles[i], file: fileToUpload, status: 'uploading' } }
markCompressed(prev, i, fileToUpload) ==
  LET newFiles == Spread(prev)
  IN Assign(newFiles, i, [file |-> fileToUpload, size |-> CompressedSize,
                          status |-> "uploading"])

\* prev => { newFiles[i] = { ...newFiles[i], status: 'error', error: ... } }
markError(prev, i) ==
  LET newFiles == Spread(prev)
  IN Assign(newFiles, i, [Fields(newFiles, i) EXCEPT !.status = "error"])

\* prev => { newFiles[i] = { ...newFiles[i], status: 'completed', progress: 100 } }
markCompleted(prev, i) ==
  LET newFiles == Spread(prev)
  IN Assign(newFiles, i, [Fields(newFiles, i) EXCEPT !.status = "completed"])

\* The queue is rendered with uploadingFiles.map(file => ... file.file.name):
\* map skips holes; an undefined slot or a slot without file throws.
RenderThrows(files) ==
  \E k \in DOMAIN files : files[k] # Hole /\ files[k].file = 0

\* handleUpload skipping no file.
skipsNothing(f) == FALSE

\* if (uploadingFiles[i].status === 'completed') continue
skips(f) == f.status = "completed"

\* The next i at or after from that the loop does not skip, Len + 1 if none.
NextI(files, from) ==
  LET S == {k \in from..Len(files) : ~skips(files[k])}
  IN IF S = {} THEN Len(files) + 1 ELSE Min(S)

\* const allCompleted = uploadingFiles.every(file => file.status ===
\* 'completed' || file.status === 'error'), on the array the run closes over.
allCompleted(closure, committed) ==
  \A k \in DOMAIN closure : closure[k].status \in {"completed", "error"}

\* The loop of handleUpload from i = from up to its next await, or to the end
\* of the run, given the queue the updaters so far have produced.
LoopFrom(closure, files, from) ==
  LET n == NextI(closure, from)
  IN IF n <= Len(closure)
     THEN /\ uploadingFiles' = markUploading(files, n)
          /\ runI' = n
          /\ runPc' = IF closure[n].size > MAX_FILE_SIZE THEN "compress" ELSE "fetch"
          /\ isProcessing' = TRUE
          /\ clearQueueTimeout' = clearQueueTimeout
          /\ page' = IF RenderThrows(markUploading(files, n)) THEN "error" ELSE "ok"
          /\ lastAdminEvent' = "step"
     ELSE /\ uploadingFiles' = files
          /\ runI' = n
          /\ runPc' = "idle"
          /\ isProcessing' = FALSE
          /\ clearQueueTimeout' =
               (IF allCompleted(closure, files) THEN TRUE ELSE clearQueueTimeout)
          /\ page' = IF RenderThrows(files) THEN "error" ELSE "ok"
          /\ lastAdminEvent' = "runEnd"

\* onDrop: the accepted file is appended with status 'waiting'.
onDrop(f) ==
  /\ page = "ok"
  /\ \A k \in DOMAIN uploadingFiles : uploadingFiles[k].file # f
  /\ f \notin {adminImages[k] : k \in DOMAIN adminImages}
  /\ \A k \in DOMAIN runFiles : runFiles[k].file # f
  /\ uploadingFiles' =
       Append(uploadingFiles, [file |-> f, size |-> FileSize(f), status |-> "waiting"])
  /\ lastAdminEvent' = "drop"
  /\ UNCHANGED <<isProcessing, adminImages, isDeleting, clearQueueTimeout,
                 runFiles, runI, runPc, runLog, imagesAtStart, page,
                 deleteRequests, lastDelete>>

\* handleUpload is called: if (isProcessing) return; otherwise the run starts
\* and goes on to its first await.
handleUpload ==
  /\ page = "ok"
  /\ uploadingFiles # <<>>
  /\ IF isProcessing
     THEN /\ lastAdminEvent' = "ignored"
          /\ UNCHANGED <<uploadingFiles, isProcessing, adminImages, isDeleting,
                         clearQueueTimeout, runFiles, runI, runPc, runLog,
                         imagesAtStart, page, deleteRequests, lastDelete>>
     ELSE /\ runFiles' = uploadingFiles
          /\ runLog' = <<>>
          /\ imagesAtStart' = adminImages
          /\ LoopFrom(uploadingFiles, uploadingFiles, 1)
          /\ UNCHANGED <<adminImages, isDeleting, deleteRequests, lastDelete>>

\* await compressImage(fileToUpload) returns or throws.
CompressSettles(ok) ==
  /\ page = "ok"
  /\ runPc = "compress"
  /\ runLog' = IF ok THEN runLog
               ELSE Append(runLog, [i |-> runI, file |-> runFiles[runI].file,
                                    outcome |-> "compress failed"])
  /\ IF ok
     THEN /\ uploadingFiles' = markCompressed(uploadingFiles, runI, runFiles[runI].file)
          /\ runPc' = "fetch"
          /\ page' = IF RenderThrows(uploadingFiles') THEN "error" ELSE "ok"
          /\ lastAdminEvent' = "step"
          /\ UNCHANGED <<isProcessing, clearQueueTimeout, runI>>
     ELSE LoopFrom(runFiles, markError(uploadingFiles, runI), runI + 1)
  /\ UNCHANGED <<adminImages, isDeleting, runFiles, imagesAtStart,
                 deleteRequests, lastDelete>>

\* setImages(prev => [...prev, result]) taking every response for a result.
imagesAfterAnyUpload(prev, outcome, result) == Append(prev, result)

\* if (!response.ok) throw ...; setImages(prev => [...prev, result])
imagesAfterUpload(prev, outcome, result) ==
  IF outcome = "ok" THEN Append(prev, result) ELSE prev

\* await fetch('/api/upload', ...) settles: response.ok, a response that is
\* not ok, or a rejection.
UploadSettles(outcome) ==
  /\ page = "ok"
  /\ runPc = "fetch"
  /\ runLog' = Append(runLog, [i |-> runI, file |-> runFiles[runI].file,
                              outcome |-> outcome])
  /\ adminImages' = imagesAfterUpload(adminImages, outcome, runFiles[runI].file)
  /\ LoopFrom(runFiles,
              IF outcome = "ok" THEN markCompleted(uploadingFiles, runI)
                                ELSE markError(uploadingFiles, runI),
              runI + 1)
  /\ UNCHANGED <<isDeleting, runFiles, imagesAtStart, deleteRequests, lastDelete>>

\* The 20 s timeout fires: setUploadingFiles([]).
ClearQueue ==
  /\ page = "ok"
  /\ clearQueueTimeout
  /\ uploadingFiles' = <<>>
  /\ clearQueueTimeout' = FALSE
  /\ lastAdminEvent' = "clear"
  /\ UNCHANGED <<isProcessing, adminImages, isDeleting, runFiles, runI, runPc,
                 runLog, imagesAtStart, page, deleteRequests, lastDelete>>

InitAdmin == BuildIdle /\ ViewerIdle /\ LayoutIdle /\ AdminIdle /\ ApiIdle /\ AuthIdle

NextAdmin ==
  \/ (\E f \in 1..MaxFiles : onDrop(f)) /\ UNCHANGED <<viewerVars, buildVars, layoutVars, apiVars, authVars>>
  \/ handleUpload /\ UNCHANGED <<viewerVars, buildVars, layoutVars, apiVars, authVars>>
  \/ (\E ok \in BOOLEAN : CompressSettles(ok)) /\ UNCHANGED <<viewerVars, buildVars, layoutVars, apiVars, authVars>>
  \/ (\E o \in {"ok", "not ok", "rejected"} : UploadSettles(o)) /\ UNCHANGED <<viewerVars, buildVars, layoutVars, apiVars, authVars>>
  \/ ClearQueue /\ UNCHANGED <<viewerVars, buildVars, layoutVars, apiVars, authVars>>

SpecAdmin == InitAdmin /\ [][NextAdmin]_vars

\* ------------------------------------------------------ admin page: delete

\* handleDelete without if (isDeleting) return.
handleDeleteSendsAlways(deleting) == TRUE

\* if (isDeleting) return: whether the call goes on to send a request.
handleDeleteSends(deleting) == deleting = None

\* setImages(prev => prev.filter(img => img.public_id !== publicId))
filterPublicId(prev, publicId) == SelectSeq(prev, LAMBDA img : img # publicId)

\* The list after a request that removes the image whatever the response.
imagesAfterDeleteAlways(prev, ok, publicId) == filterPublicId(prev, publicId)

\* if (!response.ok) throw new Error('Delete failed'); setImages(...)
imagesAfterDelete(prev, ok, publicId) ==
  IF ok THEN filterPublicId(prev, publicId) ELSE prev

\* handleDelete(publicId) up to await fetch(`/api/delete?public_id=...`).
handleDelete(publicId) ==
  /\ page = "ok"
  /\ \E k \in DOMAIN adminImages : adminImages[k] = publicId
  /\ IF handleDeleteSends(isDeleting)
     THEN /\ isDeleting' = publicId
          /\ deleteRequests' = deleteRequests \cup {publicId}
          /\ lastAdminEvent' = "delete sent"
     ELSE /\ lastAdminEvent' = "delete ignored"
          /\ UNCHANGED <<isDeleting, deleteRequests>>
  /\ UNCHANGED <<uploadingFiles, isProcessing, adminImages, clearQueueTimeout,
                 runFiles, runI, runPc, runLog, imagesAtStart, page, lastDelete>>

\* The request settles: an ok response, a response that is not ok, or a
\* rejection; finally { setIsDeleting(null) }.
DeleteSettles(publicId, outcome) ==
  /\ page = "ok"
  /\ publicId \in deleteRequests
  /\ deleteRequests' = deleteRequests \ {publicId}
  /\ adminImages' = imagesAfterDelete(adminImages, outcome = "ok", publicId)
  /\ isDeleting' = None
  /\ lastDelete' = <<[publicId |-> publicId, outcome |-> outcome, prev |-> adminImages]>>
  /\ lastAdminEvent' = "delete settled"
  /\ UNCHANGED <<uploadingFiles, isProcessing, clearQueueTimeout, runFiles, runI,
                 runPc, runLog, imagesAtStart, page>>

\* The public ids of the images the page starts with.
PublicIds == {initialImages[k] : k \in DOMAIN initialImages}

InitDelete == BuildIdle /\ ViewerIdle /\ LayoutIdle /\ AdminIdle /\ ApiIdle /\ AuthIdle

NextDelete ==
  \/ (\E id \in PublicIds : handleDelete(id)) /\ UNCHANGED <<viewerVars, buildVars, layoutVars, apiVars, authVars>>
  \/ (\E id \in PublicIds, o \in {"ok", "not ok", "rejected"} : DeleteSettles(id, o))
       /\ UNCHANGED <<viewerVars, buildVars, layoutVars, apiVars, authVars>>

SpecDelete == InitDelete /\ [][NextDelete]_vars

\* ------------------------------------------------------------ API handlers

Methods == {"GET", "POST", "DELETE"}

Passwords == {NoPassword, "", "secret", "wrong"}

\* !password
Falsy(password) == password \in {NoPassword, ""}

\* The admin-auth handler answering 200 to every password that is there.
adminAuthStatusAnyPassword(r, env) ==
  IF r.method # "POST" THEN 405
  ELSE IF Falsy(r.password) THEN 400
  ELSE 200

\* admin-auth handler: the status it answers with.
adminAuthStatus(r, env) ==
  IF r.method # "POST" THEN 405
  ELSE IF Falsy(r.password) THEN 400
  ELSE IF r.password = env THEN 200
  ELSE 401

\* admin-auth handler: res.setHeader('Set-Cookie', ...) was called.  It is
\* called on the path that answers 200 and on no other.
adminAuthSetsCookie(r, env) ==
  /\ r.method = "POST"
  /\ ~Falsy(r.password)
  /\ r.password = env

\* The admin-auth handler handles a request; it awaits nothing.
AdminAuthHandles(r) ==
  /\ apiPc \in {"idle", "done"}
  /\ requestNo < MaxRequests
  /\ requestNo' = requestNo + 1
  /\ handlerName' = "admin-auth"
  /\ req' = r
  /\ resStatus' = adminAuthStatus(r, ADMIN_PASSWORD)
  /\ setCookie' = adminAuthSetsCookie(r, ADMIN_PASSWORD)
  /\ apiPc' = "done"
  /\ UNCHANGED <<ADMIN_PASSWORD, tempFiles, hostUploads>>

\* The upload handler receives a request: 405 unless it is a POST, otherwise
\* it awaits form.parse(req).
UploadReceives(r) ==
  /\ apiPc \in {"idle", "done"}
  /\ requestNo < MaxRequests
  /\ requestNo' = requestNo + 1
  /\ handlerName' = "upload"
  /\ req' = r
  /\ setCookie' = FALSE
  /\ IF r.method # "POST"
     THEN resStatus' = 405 /\ apiPc' = "done"
     ELSE resStatus' = 0 /\ apiPc' = "parse"
  /\ UNCHANGED <<ADMIN_PASSWORD, tempFiles, hostUploads>>

\* form.parse(req) has written the file of the request, if any, to a
\* temporary file; 400 without a file, otherwise uploader.upload is called.
\* When form.parse throws the handler answers 500.
ParseSettles(ok) ==
  /\ handlerName = "upload"
  /\ apiPc = "parse"
  /\ IF ~ok
     THEN /\ resStatus' = 500
          /\ apiPc' = "done"
          /\ UNCHANGED <<tempFiles, hostUploads>>
     ELSE IF ~req.file
     THEN /\ resStatus' = 400
          /\ apiPc' = "done"
          /\ UNCHANGED <<tempFiles, hostUploads>>
     ELSE /\ tempFiles' = tempFiles \cup {requestNo}
          /\ hostUploads' = hostUploads \cup {requestNo}
          /\ apiPc' = "upload"
          /\ UNCHANGED resStatus
  /\ UNCHANGED <<ADMIN_PASSWORD, handlerName, req, setCookie, requestNo>>

\* uploader.upload returns: fs.unlinkSync(file.filepath) and 200; or it
\* throws: the catch block answers 500.
HostSettles(ok) ==
  /\ handlerName = "upload"
  /\ apiPc = "upload"
  /\ IF ok
     THEN /\ tempFiles' = tempFiles \ {requestNo}
          /\ resStatus' = 200
     ELSE /\ tempFiles' = tempFiles
          /\ resStatus' = 500
  /\ apiPc' = "done"
  /\ UNCHANGED <<ADMIN_PASSWORD, handlerName, req, setCookie, hostUploads, requestNo>>

InitApi ==
  /\ BuildIdle /\ ViewerIdle /\ LayoutIdle /\ AdminIdle /\ AuthIdle
  /\ ADMIN_PASSWORD \in {"secret", "", NoPassword}
  /\ handlerName = "none"
  /\ req = NoRequest
  /\ apiPc = "idle"
  /\ resStatus = 0
  /\ setCookie = FALSE
  /\ tempFiles = {}
  /\ hostUploads = {}
  /\ requestNo = 0

NextApi ==
  \/ (\E mt \in Methods, pw \in Passwords :
        AdminAuthHandles([method |-> mt, file |-> FALSE, password |-> pw]))
       /\ UNCHANGED <<viewerVars, buildVars, layoutVars, adminVars, authVars>>
  \/ (\E mt \in Methods, f \in BOOLEAN :
        UploadReceives([method |-> mt, file |-> f, password |-> NoPassword]))
       /\ UNCHANGED <<viewerVars, buildVars, layoutVars, adminVars, authVars>>
  \/ (\E ok \in BOOLEAN : ParseSettles(ok))
       /\ UNCHANGED <<viewerVars, buildVars, layoutVars, adminVars, authVars>>
  \/ (\E ok \in BOOLEAN : HostSettles(ok))
       /\ UNCHANGED <<viewerVars, buildVars, layoutVars, adminVars, authVars>>

SpecApi == InitApi /\ [][NextApi]_vars

\* ------------------------------------------------- admin page: authentication

\* Date.now() in milliseconds.
DateNow(minutes) == minutes * 60 * 1000

\* localStorage.setItem('adminAuth', JSON.stringify({ timestamp: Date.now() }))
Stamp(minutes) == [kind |-> "timestamp", timestamp |-> DateNow(minutes)]

\* A stored string that JSON.parse rejects or that holds no timestamp.
Garbage == [kind |-> "garbage", timestamp |-> 0]

\* checkAuth taking a timestamp of exactly thirty minutes for a fresh one.
authIsFreshInclusive(data, minutes) ==
  /\ data.kind = "timestamp"
  /\ DateNow(minutes) - data.timestamp <= thirtyMinutes

\* checkAuth: authData is there, parses, and
\* Date.now() - timestamp < thirtyMinutes.
authIsFresh(data, minutes) ==
  /\ data.kind = "timestamp"
  /\ DateNow(minutes) - data.timestamp < thirtyMinutes

\* checkAuth: setIsAuthenticated(true) and the refreshed timestamp, or
\* localStorage.removeItem and setIsAuthenticated(false).
checkAuth ==
  /\ isAuthenticated' = authIsFresh(authData, now)
  /\ authData' = IF authIsFresh(authData, now) THEN Stamp(now) ELSE Absent
  /\ lastCheck' = <<[data |-> authData, at |-> now]>>
  /\ lastAuthEvent' = "check"

\* The admin page is mounted: useEffect(() => { checkAuth(); setInterval... }).
MountAdmin ==
  /\ ~mounted
  /\ mounted' = TRUE
  /\ checkAuth
  /\ UNCHANGED <<now, loginRequests, loggedOut>>

\* setInterval(checkAuth, 60000) fires.
IntervalFires ==
  /\ mounted
  /\ checkAuth
  /\ UNCHANGED <<now, mounted, loginRequests, loggedOut>>

\* Time passes.
Tick(d) ==
  /\ now + d <= MaxMinutes
  /\ now' = now + d
  /\ lastCheck' = <<>>
  /\ lastAuthEvent' = "tick"
  /\ UNCHANGED <<authData, isAuthenticated, mounted, loginRequests, loggedOut>>

\* handleLogin up to await fetch('/api/admin-auth', ...): the login form is
\* rendered while isAuthenticated is false.
handleLogin ==
  /\ mounted
  /\ ~isAuthenticated
  /\ loginRequests < MaxLogins
  /\ loginRequests' = loginRequests + 1
  /\ lastCheck' = <<>>
  /\ lastAuthEvent' = "login sent"
  /\ UNCHANGED <<now, authData, isAuthenticated, mounted, loggedOut>>

\* The login request settles: response.ok, not ok, or a rejection.
LoginSettles(outcome) ==
  /\ loginRequests > 0
  /\ loginRequests' = loginRequests - 1
  /\ IF outcome = "ok"
     THEN /\ isAuthenticated' = TRUE
          /\ authData' = Stamp(now)
          /\ loggedOut' = FALSE
     ELSE UNCHANGED <<isAuthenticated, authData, loggedOut>>
  /\ lastCheck' = <<>>
  /\ lastAuthEvent' = "login settled"
  /\ UNCHANGED <<now, mounted>>

\* handleLogout: the Logout button is rendered while isAuthenticated is true.
handleLogout ==
  /\ mounted
  /\ isAuthenticated
  /\ authData' = Absent
  /\ isAuthenticated' = FALSE
  /\ loggedOut' = TRUE
  /\ lastCheck' = <<>>
  /\ lastAuthEvent' = "logout"
  /\ UNCHANGED <<now, mounted, loginRequests>>

\* The page is closed or reloaded: the component state and the requests in
\* flight are gone, localStorage stays.
LeaveAdmin ==
  /\ mounted
  /\ mounted' = FALSE
  /\ isAuthenticated' = FALSE
  /\ loginRequests' = 0
  /\ lastCheck' = <<>>
  /\ lastAuthEvent' = "leave"
  /\ UNCHANGED <<now, authData, loggedOut>>

InitAuth ==
  /\ BuildIdle /\ ViewerIdle /\ LayoutIdle /\ AdminIdle /\ ApiIdle
  /\ now = 0
  /\ authData \in {Absent, Garbage, Stamp(0)}
  /\ isAuthenticated = FALSE
  /\ mounted = FALSE
  /\ loginRequests = 0
  /\ lastCheck = <<>>
  /\ loggedOut = FALSE
  /\ lastAuthEvent = "none"

NextAuth ==
  \/ MountAdmin /\ UNCHANGED <<viewerVars, buildVars, layoutVars, adminVars, apiVars>>
  \/ IntervalFires /\ UNCHANGED <<viewerVars, buildVars, layoutVars, adminVars, apiVars>>
  \/ (\E d \in {1, 29, 30} : Tick(d))
       /\ UNCHANGED <<viewerVars, buildVars, layoutVars, adminVars, apiVars>>
  \/ handleLogin /\ UNCHANGED <<viewerVars, buildVars, layoutVars, adminVars, apiVars>>
  \/ (\E o \in {"ok", "not ok", "rejected"} : LoginSettles(o))
       /\ UNCHANGED <<viewerVars, buildVars, layoutVars, adminVars, apiVars>>
  \/ handleLogout /\ UNCHANGED <<viewerVars, buildVars, layoutVars, adminVars, apiVars>>
  \/ LeaveAdmin /\ UNCHANGED <<viewerVars, buildVars, layoutVars, adminVars, apiVars>>

SpecAuth == InitAuth /\ [][NextAuth]_vars

\* ------------------------------------------------------------------ claims

\* The navigationId of the record the viewer displays.
CurrentNavigationId == images[FindById(images, index)].navigationId

\* Some record has navigationId n.
HasNavigationId(n) == \E p \in DOMAIN images : images[p].navigationId = n

\* The viewer shows a gallery (images given, navigation on).
Gallery == status = "open" /\ navigation

\* C1: every accepted navigation resets imageLoaded, so imageLoaded is never
\* true for a displayed image whose own load-completion event has not occurred.
C1_LoadedOnlyForOwnImage ==
  (status = "open" /\ loaded) => ownLoad

\* C2: within one tick (before the viewer is re-rendered) the
\* identifier-changed callback is invoked at most once for the same target id.
C2_OneCallPerTarget ==
  \A i, j \in DOMAIN calls : i < j => calls[i].id # calls[j].id

C4_SwipeFollowsNavigationId ==
  Gallery =>
    /\ \A i \in DOMAIN calls :
         /\ calls[i].src = "left" =>
              \E p \in DOMAIN images :
                /\ images[p].id = calls[i].id
                /\ images[p].navigationId = CurrentNavigationId + 1
         /\ calls[i].src = "right" =>
              \E p \in DOMAIN images :
                /\ images[p].id = calls[i].id
                /\ images[p].navigationId = CurrentNavigationId - 1
    /\ (lastEvent = "left" /\ HasNavigationId(CurrentNavigationId + 1))
         => (calls # <<>> /\ calls[Len(calls)].src = "left")
    /\ (lastEvent = "right" /\ HasNavigationId(CurrentNavigationId - 1))
         => (calls # <<>> /\ calls[Len(calls)].src = "right")

\* A left swipe was reported whose target is neither the next id nor the next
\* array position.
C4_Witness ==
  /\ Gallery
  /\ \E i \in DOMAIN calls :
       /\ calls[i].src = "left"
       /\ calls[i].id # index + 1
       /\ FindById(images, calls[i].id) # FindById(images, index) + 1

\* The swipe by `step` has no record to go to.
NoNeighbour(step) ==
  \/ ~navigation
  \/ FindById(images, index) = 0
  \/ ~HasNavigationId(CurrentNavigationId + step)

ViewerUnchanged ==
  UNCHANGED <<images, navigation, status, index, photoId, currentIndex, calls,
              loaded, ownLoad, lastViewedPhoto>>

\* getStaticProps has returned the collection built from n > 0 resources.
Built == pc = "done" /\ results > 0

IsPermutation(seq, n) ==
  /\ Len(seq) = n
  /\ {seq[k] : k \in DOMAIN seq} = 0..(n - 1)

\* C5: a swipe toward a neighbour that does not exist, or while the current
\* index resolves to no record, invokes no callback, raises no error and
\* leaves the viewer's state unchanged.
C5_SwipeWithoutNeighbourIsNoOp ==
  [][/\ (lastEvent' = "left" /\ NoNeighbour(1)) => ViewerUnchanged
     /\ (lastEvent' = "right" /\ NoNeighbour(-1)) => ViewerUnchanged]_vars

\* A right swipe ran on the record with the smallest navigationId.
C5_Witness ==
  /\ Gallery
  /\ lastEvent = "right"
  /\ CurrentNavigationId = 0
  /\ calls = <<>>
  /\ loaded

\* C6: every id passed to the identifier-changed callback, from any input, is
\* the id of a record of the collection, and so is the index the parent
\* renders next.
C6_ReportedIdsExist ==
  /\ \A i \in DOMAIN calls : calls[i].id \in Ids(images)
  /\ Gallery => currentIndex \in Ids(images)

C6_Witness ==
  /\ Gallery
  /\ Len(calls) = 2
  /\ calls[1].src = "next"
  /\ calls[2].src = "thumb"
  /\ index = Len(images) - 2

\* C7: a viewer given an index that no record has is Closed: it is never Open
\* on a missing record and its render never throws.
C7_MissingRecordCloses ==
  /\ status # "error"
  /\ Gallery => FindById(images, index) # 0

\* C8: while imageLoaded is false neither the overlay controls nor the
\* bottom filmstrip are rendered.
C8_NoChromeUntilLoaded ==
  (status = "open" /\ ~loaded) =>
    /\ ~PrevButtonShown
    /\ ~NextButtonShown
    /\ ~CloseButtonShown
    /\ ~OpenOriginalShown
    /\ ~FilmstripShown

\* C8, amended: while imageLoaded is false none of the overlay controls (prev,
\* next, close, open-original) is rendered and none of them has been used; the
\* bottom filmstrip is rendered whenever navigation is on, loaded or not.
C8_OverlayControlsOnlyWhenLoaded ==
  /\ (status = "open" /\ ~loaded) =>
       /\ ~PrevButtonShown
       /\ ~NextButtonShown
       /\ ~CloseButtonShown
       /\ ~OpenOriginalShown
       /\ \A i \in DOMAIN calls : calls[i].src \notin {"prev", "next"}
  /\ Gallery => FilmstripShown

\* A thumbnail of the filmstrip was clicked before the first image loaded.
C8_Witness ==
  /\ Gallery
  /\ ~loaded
  /\ FilmstripShown
  /\ calls # <<>>
  /\ calls[1].src = "thumb"

\* C9: no prev button at index 0, no next button at index N-1; prev reports
\* index-1 and next index+1, and the index stays within [0, N-1].
C9_ButtonsStayInRange ==
  /\ index = 0 => ~PrevButtonShown
  /\ (navigation /\ index = Len(images) - 1) => ~NextButtonShown
  /\ \A i \in DOMAIN calls :
       /\ calls[i].src = "prev" => (calls[i].id = index - 1 /\ calls[i].id >= 0)
       /\ calls[i].src = "next" =>
            (calls[i].id = index + 1 /\ calls[i].id <= Len(images) - 1)
  /\ Gallery => (0 <= index /\ index <= Len(images) - 1)

\* The next button took the viewer to the last id, where it is gone.
C9_Witness ==
  /\ Gallery
  /\ loaded
  /\ lastEvent = "render"
  /\ index = Len(images) - 1
  /\ Len(images) >= 2
  /\ ~NextButtonShown
  /\ PrevButtonShown

\* C10: the id remembered as last viewed photo at a close is the id current
\* at that moment, also when a navigation was reported and not yet rendered.
C10_CloseRemembersCurrentId ==
  (status = "closed" /\ lastEvent = "close" /\ navigation)
    => lastViewedPhoto = currentIndex

\* C11: the collection built for N search results has ids exactly 0..N-1
\* without repetition, and the record at array position i has id i.
C11_IdEqualsPosition ==
  pc = "done" =>
    /\ IsPermutation([k \in DOMAIN randomizedResults |-> randomizedResults[k].id],
                     results)
    /\ \A k \in DOMAIN randomizedResults : randomizedResults[k].id = k - 1

\* C11, amended: the ids are exactly 0..N-1 without repetition, and the record
\* at array position i has the id shuffleArray put at position i.
C11_IdsDenseInShuffledOrder ==
  pc = "done" =>
    /\ IsPermutation([k \in DOMAIN randomizedResults |-> randomizedResults[k].id],
                     results)
    /\ \A k \in DOMAIN randomizedResults : randomizedResults[k].id = newArray[k]

\* A collection whose first record does not have id 0.
C11_Witness ==
  /\ Built
  /\ randomizedResults[1].id # 0
  /\ randomizedResults[results].id # results - 1

\* C12: the navigationIds of the built collection are a permutation of
\* 0..N-1 for every outcome of the shuffle; shuffleArray works on a
\* permutation of its input and leaves the input array as it was.
C12_NavigationIdsArePermutation ==
  /\ pc \in {"shuffle", "done"} =>
       /\ originalOrder = [k \in 1..results |-> k - 1]
       /\ IsPermutation(newArray, results)
  /\ pc = "done" =>
       IsPermutation(
         [k \in DOMAIN randomizedResults |-> randomizedResults[k].navigationId],
         results)

\* The shuffle reversed a collection of at least three records.
C12_Witness ==
  /\ Built
  /\ results >= 3
  /\ \A k \in DOMAIN randomizedResults :
       randomizedResults[k].navigationId = results - k
  /\ originalOrder[1] = 0

\* C13: swipe navigation is its own inverse: when a left swipe from A reports
\* B, a right swipe from B reports A, and the same for right then left.
C13_SwipeIsSelfInverse ==
  Gallery =>
    \A i \in DOMAIN calls :
      /\ calls[i].src = "left" =>
           onSwipedRight(images, navigation, calls[i].id) = index
      /\ calls[i].src = "right" =>
           onSwipedLeft(images, navigation, calls[i].id) = index

\* A right swipe was reported whose target is not the previous id.
C13_Witness ==
  /\ Gallery
  /\ Len(calls) = 1
  /\ calls[1].src = "right"
  /\ calls[1].id # index - 1
  /\ onSwipedLeft(images, navigation, calls[1].id) = index

\* The records a swipe by `step` could go to.
NeighbourPositions(step) ==
  {p \in DOMAIN images : images[p].navigationId = CurrentNavigationId + step}

\* C14: when two records share the navigationId a swipe resolves, the swipe
\* fails instead of choosing one of them and reporting it.
C14_DuplicateNavigationIdFails ==
  Gallery =>
    \A i \in DOMAIN calls :
      /\ calls[i].src = "left" => Cardinality(NeighbourPositions(1)) <= 1
      /\ calls[i].src = "right" => Cardinality(NeighbourPositions(-1)) <= 1

\* C17: for every requested index that is the id of a record, the viewer
\* opens on the record with that id, whatever its array position and its
\* navigationId.
C17_CurrentRecordHasRequestedId ==
  /\ Gallery =>
       /\ FindById(images, index) # 0
       /\ images[FindById(images, index)].id = index
  /\ (status = "error" /\ navigation) =>
       \A p \in DOMAIN images : images[p].id # index

\* The viewer opened on a record whose array position and navigationId both
\* differ from its id.
C17_Witness ==
  /\ Gallery
  /\ lastEvent = "open"
  /\ FindById(images, index) # index + 1
  /\ CurrentNavigationId # index

\* C18: for every current index the filmstrip is a subsequence of the
\* collection in array order, has at most 31 entries, contains the current
\* record and no record with id farther than 15 from the current index.
C18_FilmstripIsBoundedSubsequence ==
  Gallery =>
    LET f == filteredImages(images, index)
        fids == {f[k].id : k \in DOMAIN f}
    IN /\ f = SelectSeq(images, LAMBDA img : img.id \in fids)
       /\ Len(f) <= 31
       /\ index \in fids
       /\ \A x \in fids : x - index <= 15 /\ index - x <= 15

\* Near id 0 of a large collection whose array order is not id order.
C18_Witness ==
  /\ Gallery
  /\ Len(images) > 31
  /\ index = 3
  /\ Len(filteredImages(images, index)) = 19
  /\ filteredImages(images, index)[1].id > filteredImages(images, index)[2].id

Settled == shown # 0 /\ effectDeps = shown

Abs(x) == IF x < 0 THEN -x ELSE x

\* C15: with maxW = min(1280, vw - 100) and maxH = vh - 100, a record wider
\* than high is displayed min(maxW, w) wide and width*h/w high, any other
\* record min(maxH, h) high and height*w/h wide, both to the nearest integer;
\* 2000x1000 in 1400x900 gives 1280x640 and 800x1600 gives 400x800.
C15_DimensionsFollowAspectRatio ==
  Settled =>
    LET w == Number(Photos[shown].width)
        h == Number(Photos[shown].height)
        maxW == IF viewport.w - 100 < 1280 THEN viewport.w - 100 ELSE 1280
        maxH == viewport.h - 100
        d == dimensions
    IN /\ w > h =>
            /\ d.width = (IF maxW < w THEN maxW ELSE w)
            /\ 2 * Abs(d.height * w - d.width * h) <= w
       /\ ~(w > h) =>
            /\ d.height = (IF maxH < h THEN maxH ELSE h)
            /\ 2 * Abs(d.width * h - d.height * w) <= h
       /\ (w = 2000 /\ h = 1000 /\ viewport = [w |-> 1400, h |-> 900]) =>
            d = [width |-> 1280, height |-> 640]
       /\ (w = 800 /\ h = 1600 /\ viewport = [w |-> 1400, h |-> 900]) =>
            d = [width |-> 400, height |-> 800]

\* The 300x200 record is displayed in the 320 wide window: 220 wide, and
\* 146.67 rounds to 147 high.
C15_Witness ==
  /\ Settled
  /\ shown = 4
  /\ viewport.w = 320
  /\ dimensions = [width |-> 220, height |-> 147]

\* C16: once the viewer has computed dimensions, the dimensions it is
\* rendered with are those of the current record in the current viewport,
\* never dimensions computed for another record.
C16_DimensionsAreOfCurrentRecord ==
  (shown # 0 /\ effectDeps # 0) =>
    dimensions = calculateDimensions(Photos[shown], viewport)

\* C20: at most one resize listener is registered at a time, it is the one
\* of the record the effect last ran for, and none is registered while the
\* viewer is closed.
C20_AtMostOneResizeListener ==
  /\ Len(listeners) <= 1
  /\ shown = 0 => listeners = <<>>
  /\ effectDeps # 0 => listeners = <<effectDeps>>

\* The viewer is closed after it has registered listeners for several
\* records or openings.
C20_Witness ==
  /\ registrations >= 2
  /\ shown = 0
  /\ listeners = <<>>

C22_DisplayFitsBox ==
  Settled =>
    /\ dimensions.width <= MathMin(1280, viewport.w - 100)
    /\ dimensions.height <= viewport.h - 100

Final == {"completed", "error"}

\* C23: every entry of the upload queue has a file and a status among
\* waiting, uploading, completed and error, also when the delayed clear has
\* fired while a later run was in progress.
C23_QueueEntriesHaveFile ==
  \A k \in DOMAIN uploadingFiles :
    uploadingFiles[k] # Hole =>
      /\ uploadingFiles[k].file # 0
      /\ uploadingFiles[k].status \in {"waiting", "uploading", "completed", "error"}

\* C24: when a run has ended and every file of the queue is completed or
\* error, the delayed clear is scheduled, so that the queue is emptied later.
C24_ClearScheduledWhenAllDone ==
  ( /\ lastAdminEvent = "runEnd"
    /\ uploadingFiles # <<>>
    /\ \A k \in DOMAIN uploadingFiles : uploadingFiles[k].status \in Final )
  => clearQueueTimeout

\* A queue slot still holds the file the run found there.
HoldsFile(k) ==
  /\ k <= Len(uploadingFiles)
  /\ uploadingFiles[k].file = runFiles[k].file

C26_DeleteOnlyOnOk ==
  /\ Cardinality(deleteRequests) <= 1
  /\ deleteRequests = (IF isDeleting = None THEN {} ELSE {isDeleting})
  /\ lastAdminEvent = "delete ignored" => isDeleting # None
  /\ lastAdminEvent = "delete settled" =>
       LET d == lastDelete[1]
           removed == \A k \in DOMAIN adminImages : adminImages[k] # d.publicId
       IN /\ isDeleting = None
          /\ removed <=> d.outcome = "ok"
          /\ d.outcome # "ok" => adminImages = d.prev
          /\ \A x \in PublicIds : x # d.publicId =>
               ((\E k \in DOMAIN adminImages : adminImages[k] = x) <=>
                (\E k \in DOMAIN d.prev : d.prev[k] = x))

\* A request was answered with a response that is not ok after an earlier one
\* had removed another image.
C26_Witness ==
  /\ lastAdminEvent = "delete settled"
  /\ lastDelete[1].outcome = "not ok"
  /\ Len(adminImages) = 2
  /\ \E k \in DOMAIN adminImages : adminImages[k] = lastDelete[1].publicId

\* C27: when the upload handler has handled a POST that carried a file, the
\* temporary file of the request is gone, after a 200 and after a 500; a
\* request that is not a POST gets 405 and a POST without a file gets 400,
\* both without a media-host upload.
C27_TempFileRemoved ==
  (handlerName = "upload" /\ apiPc = "done") =>
    /\ (req.method = "POST" /\ req.file) =>
         (resStatus \in {200, 500} /\ requestNo \notin tempFiles)
    /\ req.method # "POST" => (resStatus = 405 /\ requestNo \notin hostUploads)
    /\ (req.method = "POST" /\ ~req.file /\ resStatus # 500) =>
         (resStatus = 400 /\ requestNo \notin hostUploads)

\* C28: the admin-auth handler answers 405 to a request that is not a POST,
\* 400 to a POST with no password, 200 to a POST whose password is the
\* configured one and 401 to any other; the cookie is set exactly with a 200.
C28_AuthStatusAndCookie ==
  (handlerName = "admin-auth" /\ apiPc = "done") =>
    /\ req.method # "POST" => resStatus = 405
    /\ (req.method = "POST" /\ req.password \in {NoPassword, ""}) => resStatus = 400
    /\ (req.method = "POST" /\ req.password \notin {NoPassword, ""}) =>
         resStatus = (IF req.password = ADMIN_PASSWORD THEN 200 ELSE 401)
    /\ setCookie <=> resStatus = 200

\* A wrong password was answered with 401 after the right one had been
\* answered with 200.
C28_Witness ==
  /\ handlerName = "admin-auth"
  /\ apiPc = "done"
  /\ requestNo >= 2
  /\ ADMIN_PASSWORD = "secret"
  /\ req.method = "POST"
  /\ req.password = "wrong"
  /\ resStatus = 401
  /\ ~setCookie

\* C29: after a run of the auth check isAuthenticated is true exactly when
\* the stored timestamp was less than 30 minutes old at the check, and the
\* timestamp is then the time of the check; otherwise the stored entry is
\* removed and isAuthenticated is false.  After logout the entry is absent
\* and isAuthenticated is false until a login request returns ok.
C29_AuthFollowsStoredTimestamp ==
  /\ lastAuthEvent = "check" =>
       LET c == lastCheck[1]
           young == /\ c.data.kind = "timestamp"
                    /\ c.at * 60000 - c.data.timestamp < 30 * 60 * 1000
       IN /\ isAuthenticated <=> young
          /\ young => authData = [kind |-> "timestamp", timestamp |-> c.at * 60000]
          /\ ~young => authData = Absent
  /\ loggedOut => (authData = Absent /\ ~isAuthenticated)

\* A check found a timestamp exactly 30 minutes old, written by an earlier
\* check, and removed it.
C29_Witness ==
  /\ lastAuthEvent = "check"
  /\ lastCheck[1].data.kind = "timestamp"
  /\ lastCheck[1].data.timestamp > 0
  /\ lastCheck[1].at * 60000 - lastCheck[1].data.timestamp = 30 * 60 * 1000
  /\ ~isAuthenticated
  /\ authData = Absent

====
